---------------------------- MODULE Spec2Model ----------------------------
(***************************************************************************)
(* Model of the financial dashboard script app.py.                         *)
(*                                                                         *)
(* The script is re-executed from top to bottom on every user interaction  *)
(* (a "render pass").  A pass loads the cached table, builds the chart     *)
(* table (optionally appending one forecast row per forecast metric),      *)
(* draws the charts and writes the Excel export.                           *)
(*                                                                         *)
(* Numbers: floating-point values are modelled as exact rationals <<n, d>> *)
(* in lowest terms with d > 0; NaN is <<0, 0>>.  Rounding error is not     *)
(* modelled.                                                               *)
(***************************************************************************)
EXTENDS Integers, Sequences, FiniteSets

VARIABLES
    clock,          \* wall-clock time, in seconds
    cache,          \* the st.cache_data entry of load_data
    metrics,        \* sidebar: the selected metrics
    show_growth,    \* sidebar: growth chart checkbox
    do_forecast,    \* sidebar: forecasting checkbox
    pc,             \* position of the running script
    df,             \* script variable df
    plot_df,        \* script variable plot_df
    forecast_df,    \* script variable forecast_df
    col_i,          \* index of the forecast loop over ForecastCols
    fig,            \* the line chart handed to st.plotly_chart
    fig_growth,     \* the growth bar chart, when drawn
    sheets,         \* the sheets written to the Excel export
    reference,      \* history: per forecasting toggle, what the last pass over the
                    \* cached table with the default selection produced
    fn_df,          \* ai_forecast called on its own: the table argument
    fn_col,         \* ai_forecast called on its own: col_name
    fn_years,       \* ai_forecast called on its own: predict_years
    fn_out          \* ai_forecast called on its own: the outcome

appVars == <<clock, cache, metrics, show_growth, do_forecast, pc, df, plot_df,
             forecast_df, col_i, fig, fig_growth, sheets, reference>>
fnVars == <<fn_df, fn_col, fn_years, fn_out>>
vars == <<appVars, fnVars>>

(***************************************************************************)
(* Bounds of the model.                                                    *)
(***************************************************************************)
NumSamples == 3     \* outcomes of the random generator that load_data may draw
TickStep == 1800    \* seconds that pass in one step of the clock
MaxTicks == 2       \* steps of the clock
MaxRows == 3        \* rows of a table handed to ai_forecast on its own
MaxHorizon == 2     \* predict_years handed to ai_forecast on its own

(***************************************************************************)
(* Program constants.                                                      *)
(***************************************************************************)
YearStart == 2018
YearStop == 2025
RevenueLow == 80
RevenueHigh == 150
ProfitLow == 10
ProfitHigh == 50
DebtLow == 20
DebtHigh == 60
EpsLowTenths == 15
EpsHighTenths == 45
CacheTtl == 3600
DefaultPredictYears == 1

Options == {"revenue", "net_profit", "debt_ratio", "eps"}
DefaultMetrics == {"revenue", "net_profit"}
ForecastCols == <<"revenue", "net_profit">>
GrowthCols == <<"revenue_yoy", "profit_yoy">>
BaseColumns == <<"year", "revenue", "net_profit", "debt_ratio", "eps">>

(***************************************************************************)
(* Rational arithmetic.                                                    *)
(***************************************************************************)
NaN == <<0, 0>>

Abs(n) == IF n < 0 THEN -n ELSE n

RECURSIVE Gcd(_, _)
Gcd(a, b) == IF b = 0 THEN a ELSE Gcd(b, a % b)

Rat(n, d) ==
    IF d = 0 THEN NaN
    ELSE LET g == Gcd(Abs(n), Abs(d))
             s == IF d < 0 THEN -1 ELSE 1
         IN  <<(s * n) \div g, (s * d) \div g>>

IsNaN(a) == a[2] = 0
RInt(n) == <<n, 1>>
RAdd(a, b) == IF IsNaN(a) \/ IsNaN(b) THEN NaN ELSE Rat(a[1] * b[2] + b[1] * a[2], a[2] * b[2])
RSub(a, b) == IF IsNaN(a) \/ IsNaN(b) THEN NaN ELSE Rat(a[1] * b[2] - b[1] * a[2], a[2] * b[2])
RMul(a, b) == IF IsNaN(a) \/ IsNaN(b) THEN NaN ELSE Rat(a[1] * b[1], a[2] * b[2])
RDiv(a, b) == IF IsNaN(a) \/ IsNaN(b) THEN NaN ELSE Rat(a[1] * b[2], a[2] * b[1])

RECURSIVE RSum(_)
RSum(s) == IF s = <<>> THEN RInt(0) ELSE RAdd(s[1], RSum(Tail(s)))

RMean(s) == RDiv(RSum(s), RInt(Len(s)))

(***************************************************************************)
(* Data frames: an ordered list of column names and a sequence of rows.    *)
(* A row holds a value for every column name of the program; a column a    *)
(* frame does not have holds the missing value in each of its rows.        *)
(***************************************************************************)
BlankRow ==
    [year |-> 0, revenue |-> NaN, net_profit |-> NaN, debt_ratio |-> NaN,
     eps |-> NaN, revenue_yoy |-> NaN, profit_yoy |-> NaN, is_forecast |-> "NaN"]

Undefined == [columns |-> <<>>, rows |-> <<>>]

HasColumn(frame, col) == \E k \in 1..Len(frame.columns) : frame.columns[k] = col

Column(frame, col) == [k \in 1..Len(frame.rows) |-> frame.rows[k][col]]

\* frame[col] = value: the column is added when missing, and set in every row
SetColumn(frame, col, value) ==
    [columns |-> IF HasColumn(frame, col) THEN frame.columns
                 ELSE Append(frame.columns, col),
     rows |-> [k \in 1..Len(frame.rows) |-> [frame.rows[k] EXCEPT ![col] = value]]]

\* pd.concat([a, b], ignore_index=True)
Concat(a, b) ==
    [columns |-> a.columns \o SelectSeq(b.columns, LAMBDA c : ~HasColumn(a, c)),
     rows |-> a.rows \o b.rows]

\* Series.pct_change() * 100
PctChange(s) ==
    [k \in 1..Len(s) |->
        IF k = 1 THEN NaN
        ELSE RMul(RSub(RDiv(s[k], s[k - 1]), RInt(1)), RInt(100))]

(***************************************************************************)
(* load_data                                                               *)
(***************************************************************************)
Years == [k \in 1..(YearStop - YearStart) |-> YearStart + k - 1]

\* np.random: the i-th value of a draw from lo..hi-1, in the k-th outcome of
\* the generator
Draw(lo, hi, k, i) == lo + ((17 * k + 5 * i * i + 3 * k * i) % (hi - lo))

Samples == 1..NumSamples

GenerateTable(k) ==
    LET n == Len(Years)
        revenue == [i \in 1..n |-> RInt(Draw(RevenueLow, RevenueHigh, k, i))]
        profit == [i \in 1..n |-> RInt(Draw(ProfitLow, ProfitHigh, k + 1, i))]
        debt == [i \in 1..n |-> Rat(Draw(DebtLow * 10, DebtHigh * 10, k, i), 10)]
        eps == [i \in 1..n |-> Rat(Draw(EpsLowTenths * 10, EpsHighTenths * 10, k, i + 1), 100)]
        rev_yoy == PctChange(revenue)
        pro_yoy == PctChange(profit)
    IN  [columns |-> BaseColumns \o GrowthCols,
         rows |-> [i \in 1..n |->
                     [BlankRow EXCEPT !.year = Years[i],
                                      !.revenue = revenue[i],
                                      !.net_profit = profit[i],
                                      !.debt_ratio = debt[i],
                                      !.eps = eps[i],
                                      !.revenue_yoy = rev_yoy[i],
                                      !.profit_yoy = pro_yoy[i]]]]

(***************************************************************************)
(* ai_forecast                                                             *)
(***************************************************************************)
RECURSIVE SeqMax(_)
SeqMax(s) == IF Len(s) = 1 THEN s[1]
             ELSE LET m == SeqMax(Tail(s)) IN IF s[1] > m THEN s[1] ELSE m

\* a fit whose intercept is the mean of y, not corrected by the mean of X
FitMeanIntercept(X, y) ==
    LET n == Len(X)
        X_offset == RMean(X)
        y_offset == RMean(y)
        Xc == [k \in 1..n |-> RSub(X[k], X_offset)]
        yc == [k \in 1..n |-> RSub(y[k], y_offset)]
        sxx == RSum([k \in 1..n |-> RMul(Xc[k], Xc[k])])
        sxy == RSum([k \in 1..n |-> RMul(Xc[k], yc[k])])
        coef == IF sxx = RInt(0) THEN RInt(0) ELSE RDiv(sxy, sxx)
    IN  [coef_ |-> coef, intercept_ |-> y_offset]

\* LinearRegression().fit(X, y) on one feature: both are centred on their
\* means, the coefficient is the minimum-norm least-squares solution on the
\* centred data, and the intercept puts the line through the means.
Fit(X, y) ==
    LET n == Len(X)
        X_offset == RMean(X)
        y_offset == RMean(y)
        Xc == [k \in 1..n |-> RSub(X[k], X_offset)]
        yc == [k \in 1..n |-> RSub(y[k], y_offset)]
        sxx == RSum([k \in 1..n |-> RMul(Xc[k], Xc[k])])
        sxy == RSum([k \in 1..n |-> RMul(Xc[k], yc[k])])
        coef == IF sxx = RInt(0) THEN RInt(0) ELSE RDiv(sxy, sxx)
    IN  [coef_ |-> coef, intercept_ |-> RSub(y_offset, RMul(X_offset, coef))]

\* model.predict(x)
Predict(model, x) == RAdd(RMul(RInt(x), model.coef_), model.intercept_)

\* the years counted from the last year itself: np.arange(0, predict_years)
NextYearsFromLast(frame, predict_years) ==
    [j \in 1..predict_years |-> SeqMax(Column(frame, "year")) + j - 1]

\* df["year"].max() + np.arange(1, predict_years + 1)
NextYears(frame, predict_years) ==
    [j \in 1..predict_years |-> SeqMax(Column(frame, "year")) + j]

ai_forecast(frame, col_name, predict_years) ==
    IF ~HasColumn(frame, col_name) THEN [outcome |-> "KeyError", frame |-> Undefined]
    ELSE IF Len(frame.rows) = 0 THEN [outcome |-> "ValueError", frame |-> Undefined]
    ELSE
        LET X == [k \in 1..Len(frame.rows) |-> RInt(frame.rows[k].year)]
            y == Column(frame, col_name)
            model == Fit(X, y)
            next_year == NextYears(frame, predict_years)
        IN  [outcome |-> "ok",
             frame |-> [columns |-> <<"year", col_name>>,
                        rows |-> [j \in 1..predict_years |->
                                    [BlankRow EXCEPT !.year = next_year[j],
                                                     ![col_name] = Predict(model, next_year[j])]]]]

(***************************************************************************)
(* The cache of load_data                                                  *)
(***************************************************************************)
NoEntry == [table |-> Undefined, created |-> 0, valid |-> FALSE]

\* a cache that never serves its entry
CacheHitNever(entry, now) == FALSE

CacheHit(entry, now) == entry.valid /\ now - entry.created < CacheTtl

(***************************************************************************)
(* The script                                                              *)
(***************************************************************************)
NoOutput == [plot_df |-> Undefined, sheets |-> <<>>]
NoFigure == [x |-> <<>>, y |-> {}]
NotCalled == [outcome |-> "not called", frame |-> Undefined]

Init ==
    /\ clock = 0
    /\ cache = NoEntry
    /\ metrics = DefaultMetrics
    /\ show_growth = TRUE
    /\ do_forecast = TRUE
    /\ pc = "load"
    /\ df = Undefined
    /\ plot_df = Undefined
    /\ forecast_df = Undefined
    /\ col_i = 1
    /\ fig = NoFigure
    /\ fig_growth = NoFigure
    /\ sheets = <<>>
    /\ reference = [f \in BOOLEAN |-> NoOutput]
    /\ fn_df = Undefined
    /\ fn_col = "revenue"
    /\ fn_years = DefaultPredictYears
    /\ fn_out = NotCalled

\* time passes
Tick ==
    /\ clock < MaxTicks * TickStep
    /\ clock' = clock + TickStep
    /\ UNCHANGED <<cache, metrics, show_growth, do_forecast, pc, df, plot_df,
                   forecast_df, col_i, fig, fig_growth, sheets, reference, fnVars>>

\* the user touches a control: the script is run again, in a fresh namespace
Rerun(m, g, f) ==
    /\ pc = "idle"
    /\ metrics' = m
    /\ show_growth' = g
    /\ do_forecast' = f
    /\ pc' = "load"
    /\ df' = Undefined
    /\ plot_df' = Undefined
    /\ forecast_df' = Undefined
    /\ col_i' = 1
    /\ fig' = NoFigure
    /\ fig_growth' = NoFigure
    /\ sheets' = <<>>
    /\ UNCHANGED <<clock, cache, reference, fnVars>>

\* df = load_data(), behind st.cache_data(ttl=3600)
LoadData ==
    /\ pc = "load"
    /\ IF CacheHit(cache, clock)
       THEN /\ df' = cache.table
            /\ UNCHANGED <<cache, reference>>
       ELSE \E k \in Samples :
            /\ df' = GenerateTable(k)
            /\ cache' = [table |-> df', created |-> clock, valid |-> TRUE]
            /\ reference' = [f \in BOOLEAN |-> NoOutput]
    /\ pc' = "copy"
    /\ UNCHANGED <<clock, metrics, show_growth, do_forecast, plot_df, forecast_df,
                   col_i, fig, fig_growth, sheets, fnVars>>

\* a loop over the forecast columns the user selected
LoopColsSelected(selected) == SelectSeq(ForecastCols, LAMBDA c : c \in selected)

\* the columns the forecast loop runs over
LoopCols(selected) == ForecastCols

\* plot_df = df.copy()
CopyFrame ==
    /\ pc = "copy"
    /\ plot_df' = df
    /\ pc' = IF do_forecast /\ LoopCols(metrics) # <<>> THEN "forecast" ELSE "chart"
    /\ UNCHANGED <<clock, cache, metrics, show_growth, do_forecast, df, forecast_df,
                   col_i, fig, fig_growth, sheets, reference, fnVars>>

\* the frame the loop body binds to forecast_df
ForecastFrame(frame, col) == SetColumn(ai_forecast(frame, col, DefaultPredictYears).frame,
                                       "is_forecast", "True")

\* a loop body that puts the forecast rows first
AppendForecastFirst(plot, fc) == Concat(fc, SetColumn(plot, "is_forecast", "False"))

\* the frame the loop body binds to plot_df
AppendForecast(plot, fc) == Concat(SetColumn(plot, "is_forecast", "False"), fc)

\* one iteration of the forecast loop
ForecastIter ==
    /\ pc = "forecast"
    /\ LET cols == LoopCols(metrics)
           col == cols[col_i]
       IN  /\ IF HasColumn(df, col)
              THEN IF ai_forecast(df, col, DefaultPredictYears).outcome = "ok"
                   THEN /\ forecast_df' = ForecastFrame(df, col)
                        /\ plot_df' = AppendForecast(plot_df, forecast_df')
                        /\ pc' = IF col_i = Len(cols) THEN "chart" ELSE "forecast"
                   ELSE /\ pc' = "error"
                        /\ UNCHANGED <<forecast_df, plot_df>>
              ELSE /\ pc' = IF col_i = Len(cols) THEN "chart" ELSE "forecast"
                   /\ UNCHANGED <<forecast_df, plot_df>>
           /\ col_i' = col_i + 1
    /\ UNCHANGED <<clock, cache, metrics, show_growth, do_forecast, df,
                   fig, fig_growth, sheets, reference, fnVars>>

\* px.line(plot_df, x="year", y=metrics), and the growth chart when asked for
Charts ==
    /\ pc = "chart"
    /\ fig' = [x |-> Column(plot_df, "year"), y |-> metrics]
    /\ fig_growth' = IF show_growth
                     THEN [x |-> Column(df, "year"), y |-> {"revenue_yoy", "profit_yoy"}]
                     ELSE NoFigure
    /\ pc' = "export"
    /\ UNCHANGED <<clock, cache, metrics, show_growth, do_forecast, df, plot_df,
                   forecast_df, col_i, sheets, reference, fnVars>>

Sheet(name, frame) == [sheet_name |-> name, columns |-> frame.columns, rows |-> frame.rows]

\* an export that writes the forecast sheet without asking the toggle
ExportSheetsAlways(frame, fc, enabled) ==
    <<Sheet("raw data", frame), Sheet("AI forecast", fc)>>

\* the sheets the ExcelWriter block writes
ExportSheets(frame, fc, enabled) ==
    <<Sheet("raw data", frame)>>
        \o (IF enabled THEN <<Sheet("AI forecast", fc)>> ELSE <<>>)

Export ==
    /\ pc = "export"
    /\ sheets' = ExportSheets(df, forecast_df, do_forecast)
    /\ reference' = IF metrics = DefaultMetrics /\ show_growth
                    THEN [reference EXCEPT ![do_forecast] =
                             [plot_df |-> plot_df, sheets |-> sheets']]
                    ELSE reference
    /\ pc' = "idle"
    /\ UNCHANGED <<clock, cache, metrics, show_growth, do_forecast, df, plot_df,
                   forecast_df, col_i, fig, fig_growth, fnVars>>

Next ==
    \/ Tick
    \/ \E m \in SUBSET Options, g \in BOOLEAN, f \in BOOLEAN : Rerun(m, g, f)
    \/ LoadData
    \/ CopyFrame
    \/ ForecastIter
    \/ Charts
    \/ Export

Spec == Init /\ [][Next]_vars

(***************************************************************************)
(* ai_forecast as a function of its arguments: the table, the column and   *)
(* the horizon are drawn from bounded sets and the function is applied.    *)
(***************************************************************************)
FnValues == {100, 110, 121}

FnFrame(values) ==
    [columns |-> <<"year", "revenue">>,
     rows |-> [k \in 1..Len(values) |->
                 [BlankRow EXCEPT !.year = YearStart + k - 1,
                                  !.revenue = RInt(values[k])]]]

ExampleTable == FnFrame(<<100, 110, 121, 133, 146, 160, 176>>)

FnTables ==
    {FnFrame(v) : v \in UNION {[1..n -> FnValues] : n \in 0..MaxRows}} \cup {ExampleTable}

InitFn ==
    /\ clock = 0
    /\ cache = NoEntry
    /\ metrics = DefaultMetrics
    /\ show_growth = TRUE
    /\ do_forecast = TRUE
    /\ pc = "load"
    /\ df = Undefined
    /\ plot_df = Undefined
    /\ forecast_df = Undefined
    /\ col_i = 1
    /\ fig = NoFigure
    /\ fig_growth = NoFigure
    /\ sheets = <<>>
    /\ reference = [f \in BOOLEAN |-> NoOutput]
    /\ fn_df \in FnTables
    /\ fn_col \in {"revenue", "net_profit"}
    /\ fn_years \in 1..MaxHorizon
    /\ fn_out = NotCalled

CallForecast ==
    /\ fn_out = NotCalled
    /\ fn_out' = ai_forecast(fn_df, fn_col, fn_years)
    /\ UNCHANGED <<appVars, fn_df, fn_col, fn_years>>

NextFn == CallForecast

SpecFn == InitFn /\ [][NextFn]_vars

(***************************************************************************)
(* Properties                                                              *)
(***************************************************************************)
HistCount == Len(df.rows)
HistYears == {df.rows[k].year : k \in 1..HistCount}
ForecastIndex == (HistCount + 1)..Len(plot_df.rows)
ForecastYears == {plot_df.rows[k].year : k \in ForecastIndex}
LoopDone == pc \in {"chart", "export", "idle"}
PassDone == pc = "idle"
Composed == pc \in {"forecast", "chart", "export", "idle"}
Called == fn_out # NotCalled
ColumnSet(frame) == {frame.columns[k] : k \in 1..Len(frame.columns)}

\* C1: with forecasting enabled the composite table has one row more than the
\* historical table for each distinct forecast year, and no forecast year is
\* a historical year.
C1_OneRowPerForecastYear ==
    (LoopDone /\ do_forecast) =>
        /\ Len(plot_df.rows) = HistCount + Cardinality(ForecastYears)
        /\ ForecastYears \cap HistYears = {}

\* C2: at the end of the forecast loop every historical row of the composite
\* table is flagged is_forecast = False and every forecast row True.
C2_FlagsFollowOrigin ==
    (LoopDone /\ do_forecast) =>
        \A k \in 1..Len(plot_df.rows) :
            plot_df.rows[k].is_forecast = (IF k <= HistCount THEN "False" ELSE "True")

\* C3: with forecasting enabled the "AI forecast" sheet holds, for each
\* forecast year, a forecast value of every forecast metric.
C3_ForecastSheetHasEveryMetric ==
    (PassDone /\ do_forecast) =>
        /\ Len(sheets) = 2
        /\ \A k \in 1..Len(ForecastCols), t \in ForecastYears :
               /\ ForecastCols[k] \in ColumnSet(sheets[2])
               /\ \E r \in 1..Len(sheets[2].rows) :
                      /\ sheets[2].rows[r].year = t
                      /\ ~IsNaN(sheets[2].rows[r][ForecastCols[k]])

\* C4: ai_forecast on a table of fewer than two rows ends in an
\* InsufficientDataError and produces no forecast rows.
C4_InsufficientData ==
    (Called /\ HasColumn(fn_df, fn_col) /\ Len(fn_df.rows) < 2) =>
        /\ fn_out.outcome = "InsufficientDataError"
        /\ fn_out.frame.rows = <<>>

\* C5: every pass reads the table the cache holds; while the entry is younger
\* than the ttl no step changes it; and the entry changes only when load_data
\* runs on a missing or expired entry, which stores a newly built table stamped
\* with the current time.
C5_CacheWindow ==
    /\ [](pc # "load" => (cache.valid /\ df = cache.table))
    /\ [][CacheHit(cache, clock) => cache' = cache]_vars
    /\ [][cache' # cache =>
            /\ pc = "load"
            /\ ~cache.valid \/ clock - cache.created >= CacheTtl
            /\ cache'.valid /\ cache'.created = clock
            /\ df' = cache'.table]_vars

C5_Witness ==
    /\ PassDone
    /\ reference[TRUE] # NoOutput /\ reference[FALSE] # NoOutput
    /\ clock > cache.created

\* C6: the export always holds the "raw data" sheet with exactly the rows and
\* columns of the cached table, years ascending; it holds the "AI forecast"
\* sheet exactly when forecasting is enabled; and that sheet is written from a
\* forecast_df bound by this pass (a pass starts with forecast_df unbound).
C6_ExportSheets ==
    /\ pc \in {"load", "copy"} => forecast_df = Undefined
    /\ PassDone =>
        /\ Len(sheets) = (IF do_forecast THEN 2 ELSE 1)
        /\ sheets[1] = Sheet("raw data", cache.table)
        /\ \A k \in 1..(Len(sheets[1].rows) - 1) :
               sheets[1].rows[k].year < sheets[1].rows[k + 1].year
        /\ do_forecast =>
               /\ forecast_df # Undefined
               /\ sheets[2] = Sheet("AI forecast", forecast_df)
               /\ \E k \in 1..Len(ForecastCols) :
                      forecast_df = ForecastFrame(cache.table, ForecastCols[k])

C6_Witness == PassDone /\ do_forecast /\ Len(sheets) = 2 /\ sheets[2].rows # <<>>

\* C7: the first N rows of the composite table are the N rows of the cached
\* table, in order and equal on every original column, and the years of the
\* composite table never decrease from one row to the next.
C7_HistoricalRowsUnmodified ==
    Composed =>
        /\ Len(plot_df.rows) >= Len(cache.table.rows)
        /\ \A k \in 1..Len(cache.table.rows), c \in ColumnSet(cache.table) :
               plot_df.rows[k][c] = cache.table.rows[k][c]
        /\ \A k \in 1..(Len(plot_df.rows) - 1) :
               plot_df.rows[k].year <= plot_df.rows[k + 1].year

C7_Witness == PassDone /\ do_forecast /\ Len(plot_df.rows) > HistCount

\* the largest year of a frame, found by comparison with every year
LastYear(frame) ==
    CHOOSE m \in {frame.rows[k].year : k \in 1..Len(frame.rows)} :
        \A k \in 1..Len(frame.rows) : frame.rows[k].year <= m

HorizonYears ==
    /\ fn_out.outcome = "ok"
    /\ Len(fn_out.frame.rows) = fn_years
    /\ \A j \in 1..fn_years : fn_out.frame.rows[j].year = LastYear(fn_df) + j

\* C8 as stated: for every table and every positive horizon h ai_forecast
\* returns h rows, of the years max(year)+1 .. max(year)+h in that order.
C8_EveryTable ==
    (Called /\ HasColumn(fn_df, fn_col)) => HorizonYears

\* C8 amended: for every table of at least one row and every positive horizon
\* h ai_forecast returns h rows, of the years max(year)+1 .. max(year)+h in
\* that order; for the years 2018..2024 and the default horizon that is 2025.
C8_NonEmptyTable ==
    /\ (Called /\ HasColumn(fn_df, fn_col) /\ Len(fn_df.rows) >= 1) => HorizonYears
    /\ (Called /\ fn_df = ExampleTable /\ fn_col = "revenue"
          /\ fn_years = DefaultPredictYears) =>
            Column(fn_out.frame, "year") = <<2025>>

C8_Witness == fn_out.outcome = "ok" /\ fn_years > 1 /\ Len(fn_df.rows) > 1

\* the least-squares line of col on year from the raw sums, at year t
OlsAt(frame, col, t) ==
    LET n == RInt(Len(frame.rows))
        x == [k \in 1..Len(frame.rows) |-> RInt(frame.rows[k].year)]
        y == Column(frame, col)
        sx == RSum(x)
        sy == RSum(y)
        sxx == RSum([k \in 1..Len(x) |-> RMul(x[k], x[k])])
        sxy == RSum([k \in 1..Len(x) |-> RMul(x[k], y[k])])
        slope == RDiv(RSub(RMul(n, sxy), RMul(sx, sy)), RSub(RMul(n, sxx), RMul(sx, sx)))
        intercept == RDiv(RSub(sy, RMul(slope, sx)), n)
    IN  RAdd(intercept, RMul(slope, RInt(t)))

\* C9: on a table of at least two rows the value predicted for a forecast
\* year is the ordinary-least-squares line of the metric on year, fitted over
\* all rows, at that year; for 2018..2024 and revenue 100, 110, 121, 133, 146,
\* 160, 176 the prediction for 2025 is 1299/7.
C9_PredictionIsOls ==
    (Called /\ fn_out.outcome = "ok" /\ Len(fn_df.rows) >= 2) =>
        /\ \A j \in 1..Len(fn_out.frame.rows) :
               fn_out.frame.rows[j][fn_col] =
                   OlsAt(fn_df, fn_col, fn_out.frame.rows[j].year)
        /\ (fn_df = ExampleTable /\ fn_years = 1) =>
               fn_out.frame.rows[1][fn_col] = <<1299, 7>>

C9_Witness == fn_df = ExampleTable /\ fn_years = 1 /\ fn_out.outcome = "ok"

\* C10: a pass produces the composite table and the export that the pass with
\* the default selection produced over the same cached table and forecasting
\* toggle, whatever its own selection and growth toggle; its forecast rows
\* carry revenue and net profit, one each, and neither debt ratio nor EPS.
C10_SelectionIndependent ==
    PassDone =>
        /\ reference[do_forecast] # NoOutput =>
               /\ plot_df = reference[do_forecast].plot_df
               /\ sheets = reference[do_forecast].sheets
        /\ Len(plot_df.rows) - HistCount = (IF do_forecast THEN Len(ForecastCols) ELSE 0)
        /\ \A k \in ForecastIndex, c \in Options :
               IsNaN(plot_df.rows[k][c]) <=> (c # ForecastCols[k - HistCount])

C10_Witness ==
    /\ PassDone /\ do_forecast
    /\ reference[do_forecast] # NoOutput
    /\ metrics = {"debt_ratio", "eps"}
    /\ ~show_growth

=============================================================================
